---- MODULE Spec2Model ----
(***************************************************************************)
(* Model of the diagram modal zoom/pan engine of md-previewer              *)
(* (media/scripts/modal-zoom.js): modalZoomManager, zoomController,        *)
(* panController, the cursor helpers and the DOM event listeners.          *)
(*                                                                         *)
(* Numbers.  JavaScript doubles are modelled by exact rational arithmetic: *)
(* fitRatio is a reduced fraction <<num, den>>, half pixels are carried    *)
(* in doubled units (names ending in 2).  The viewport stores its scroll   *)
(* offsets in whole CSS pixels (rounded to nearest) and clamps them to the *)
(* scrollable range, as the DOM does at device pixel ratio 1.              *)
(*                                                                         *)
(* Specifications.  Spec: the event listeners on a preview page with three *)
(* diagrams.  SpecLoad: the same listeners on a page with an image-backed  *)
(* diagram, with fairness of the image's load / error event.  SpecFit:     *)
(* initializeDisplay over a range of natural sizes and viewports.          *)
(* SpecTrip: zoom-in / zoom-out round trips from Open(Ready) states.       *)
(* SpecServer: the life cycle of the local PlantUML server (extension.ts,  *)
(* services/PlantUMLServer.ts).  SpecPanel: the life cycle of the preview  *)
(* panel (preview/PreviewPanel.ts).                                        *)
(***************************************************************************)
EXTENDS Integers, Sequences, FiniteSets, TLC

VARIABLES
    st,         \* the program state: the three controllers and the DOM they use
    page,       \* the diagrams of the preview document the webview shows
    last,       \* history: the last zoom / reset / display request and the state it found
    first,      \* history: what the session's first initializeDisplay produced
    trip,       \* history: progress of a zoom-in, zoom-in, zoom-out, zoom-out round trip
    tail,       \* number of counted events handled so far (see Handle)
    resets,     \* number of reset requests handled so far
    host        \* the extension host: the PlantUML servers, their processes, the preview panels

vars == <<st, page, last, first, trip, tail, resets, host>>

----------------------------------------------------------------------------
(* Arithmetic helpers *)

Min(a, b) == IF a <= b THEN a ELSE b
Max(a, b) == IF a >= b THEN a ELSE b
Abs(a)    == IF a >= 0 THEN a ELSE -a

RECURSIVE GCD(_, _)
GCD(a, b) == IF b = 0 THEN a ELSE GCD(b, a % b)

\* Math.round(a / b) for b > 0: the nearest integer, halves rounded up
RoundDiv(a, b) ==
    LET q == a \div b
        r == a % b
    IN  IF 2 * r >= b THEN q + 1 ELSE q

\* the fraction n / d in lowest terms
Reduce(n, d) == LET g == GCD(n, d) IN <<n \div g, d \div g>>

----------------------------------------------------------------------------
(* Environment: the viewport's client box and the diagrams of the preview *)

\* viewport.clientWidth x viewport.clientHeight of the webview panel
Viewport == <<800, 600>>

\* A diagram element of the preview.  kind "svg": an inline vector diagram
\* (the Mermaid output); kind "img": an <img> (PlantUML).  w, h: the size
\* the diagram content lays out at when nothing constrains it; bw, bh: the
\* SVG's getBBox() size (0 for an img).
Diagrams ==
    { [kind |-> "svg", w |-> 90,   h |-> 70,   bw |-> 66,   bh |-> 46],
      [kind |-> "svg", w |-> 1600, h |-> 1200, bw |-> 1596, bh |-> 1196],
      [kind |-> "img", w |-> 780,  h |-> 400,  bw |-> 0,    bh |-> 0] }

NoDiagram == [kind |-> "none", w |-> 0, h |-> 0, bw |-> 0, bh |-> 0]

\* pointer positions, relative to the viewport's top-left corner: of clicks
\* and button presses, and of mouse moves
Pointers     == { <<380, 290>> }
MovePointers == { <<380, 290>>, <<350, 270>> }

\* bounds of the exploration
MaxTail   == 3
MaxResets == 1
MaxCycles == 3

----------------------------------------------------------------------------
(* zoomController constants *)

MIN_ZOOM  == 10
MAX_ZOOM  == 1000
ZOOM_STEP == 10
\* variant: a margin of 90%
VISUAL_MARGIN_90 == <<90, 100>>

\* 0.95, as the fraction 95 / 100
VISUAL_MARGIN == <<95, 100>>
BBOX_MARGIN == 4
SAFE_MINIMUM == 100

----------------------------------------------------------------------------
(* The DOM as the script reads and writes it *)

\* width/height the content of the container lays out at: nothing while the
\* container is empty or its <img> has not loaded
ContentWidth(s) ==
    IF s.content.kind = "none" \/ (s.content.kind = "img" /\ s.imgState # "loaded")
    THEN 0 ELSE s.content.w
ContentHeight(s) ==
    IF s.content.kind = "none" \/ (s.content.kind = "img" /\ s.imgState # "loaded")
    THEN 0 ELSE s.content.h

\* container.offsetWidth / offsetHeight: the explicit style size once one is
\* set, the content's own size while style.width is ''
offsetWidth(s)  == IF s.styleSized THEN s.styleWidth  ELSE ContentWidth(s)
offsetHeight(s) == IF s.styleSized THEN s.styleHeight ELSE ContentHeight(s)

\* container.scrollWidth / scrollHeight and firstElementChild's rectangle
scrollWidth(s)  == Max(offsetWidth(s), ContentWidth(s))
scrollHeight(s) == Max(offsetHeight(s), ContentHeight(s))
childRectWidth(s)  == ContentWidth(s)
childRectHeight(s) == ContentHeight(s)

\* variant: the offset is not held below the end of the scrollable range
ScrollTo_NoUpperBound(num, den, contentSize, clientSize) ==
    Max(0, (2 * num + den) \div (2 * den))

\* viewport.scrollLeft = num / den: the viewport keeps whole pixels and
\* clamps to its scrollable range [0, max(0, content - client)]
ScrollTo(num, den, contentSize, clientSize) ==
    Max(0, Min(RoundDiv(num, den), Max(0, contentSize - clientSize)))

----------------------------------------------------------------------------
(* updateViewportCursor: the cursor-mode class of the viewport *)

updateViewportCursor(s) ==
    IF ~s.isModalOpen THEN "none"
    ELSE IF s.ctrlOrMeta THEN "zoom-in-mode"
    ELSE IF s.altKey THEN "zoom-out-mode"
    ELSE IF s.isPanning THEN "pan-dragging"
    ELSE IF s.currentZoom > 100 THEN "pan-ready"
    ELSE "none"

WithCursor(s) == [s EXCEPT !.cursor = updateViewportCursor(s)]

\* getContainerOffsets, in doubled pixels: where the centered layout puts
\* the container inside the viewport; 0 in the scrollable layout
horizontalOffset2(s) ==
    IF s.layoutMode # "centered" THEN 0
    ELSE Max(0, s.clientWidth - offsetWidth(s))
verticalOffset2(s) ==
    IF s.layoutMode # "centered" THEN 0
    ELSE Max(0, s.clientHeight - offsetHeight(s))

----------------------------------------------------------------------------
(* zoomController.initializeDisplay *)

\* natural size of one axis: offset size, else scroll size, else the first
\* child's rectangle (used when either axis is still 0), else the safe minimum
MeasuredWidth(s) ==
    LET a == IF offsetWidth(s) = 0 THEN scrollWidth(s) ELSE offsetWidth(s)
        b == IF offsetHeight(s) = 0 THEN scrollHeight(s) ELSE offsetHeight(s)
    IN  IF (a = 0 \/ b = 0) /\ s.content.kind # "none" /\ childRectWidth(s) # 0
        THEN childRectWidth(s) ELSE a
MeasuredHeight(s) ==
    LET a == IF offsetWidth(s) = 0 THEN scrollWidth(s) ELSE offsetWidth(s)
        b == IF offsetHeight(s) = 0 THEN scrollHeight(s) ELSE offsetHeight(s)
    IN  IF (a = 0 \/ b = 0) /\ s.content.kind # "none" /\ childRectHeight(s) # 0
        THEN childRectHeight(s) ELSE b

\* container.closest('.plantuml-container'): the modal container has no such
\* ancestor in the webview's HTML
isPlantUML == FALSE

\* variant: a measurement of 0 is kept
NaturalSize_NoSafeMinimum(s) ==
    IF s.content.kind = "svg" /\ ~isPlantUML /\ s.content.bw > 0 /\ s.content.bh > 0
    THEN <<s.content.bw + BBOX_MARGIN, s.content.bh + BBOX_MARGIN>>
    ELSE <<MeasuredWidth(s), MeasuredHeight(s)>>

NaturalSize(s) ==
    LET mw == MeasuredWidth(s)
        mh == MeasuredHeight(s)
        safeW == IF mw = 0 \/ mh = 0 THEN Max(mw, SAFE_MINIMUM) ELSE mw
        safeH == IF mw = 0 \/ mh = 0 THEN Max(mh, SAFE_MINIMUM) ELSE mh
    IN  IF s.content.kind = "svg" /\ ~isPlantUML /\ s.content.bw > 0 /\ s.content.bh > 0
        THEN <<s.content.bw + BBOX_MARGIN, s.content.bh + BBOX_MARGIN>>
        ELSE <<safeW, safeH>>

\* variant: the content is fitted to the viewport's width only
FitRatio_WidthOnly(s, nw, nh) ==
    LET num == VISUAL_MARGIN[1] * s.clientWidth
        den == VISUAL_MARGIN[2] * nw
    IN  IF num >= den THEN <<1, 1>> ELSE Reduce(num, den)

\* variant: the ratio is not capped at 1.0
FitRatio_NoCap(s, nw, nh) ==
    LET byWidth == s.clientWidth * nh <= s.clientHeight * nw
        num == VISUAL_MARGIN[1] * (IF byWidth THEN s.clientWidth ELSE s.clientHeight)
        den == VISUAL_MARGIN[2] * (IF byWidth THEN nw ELSE nh)
    IN  Reduce(num, den)

\* min((viewportWidth * 0.95) / naturalWidth, (viewportHeight * 0.95) / naturalHeight, 1.0)
FitRatio(s, nw, nh) ==
    LET byWidth == s.clientWidth * nh <= s.clientHeight * nw
        num == VISUAL_MARGIN[1] * (IF byWidth THEN s.clientWidth ELSE s.clientHeight)
        den == VISUAL_MARGIN[2] * (IF byWidth THEN nw ELSE nh)
    IN  IF num >= den THEN <<1, 1>> ELSE Reduce(num, den)

\* variant: the scaled size is truncated instead of rounded
ScaledSize_Floor(natural, fit, zoom) ==
    (natural * fit[1] * zoom) \div (fit[2] * 100)

\* Math.round(natural * fitRatio * (zoom / 100))
ScaledSize(natural, fit, zoom) ==
    LET z == Reduce(zoom, 100)
    IN  RoundDiv(natural * fit[1] * z[1], fit[2] * z[2])

\* variant: only the container's height is compared
LayoutModeFor_HeightOnly(s, w, h) ==
    IF h <= s.clientHeight THEN "centered" ELSE "scrollable"

\* variant: the container is compared with the wrong viewport axes
LayoutModeFor_Swapped(s, w, h) ==
    IF w <= s.clientHeight /\ h <= s.clientWidth THEN "centered" ELSE "scrollable"

LayoutModeFor(s, w, h) ==
    IF w <= s.clientWidth /\ h <= s.clientHeight THEN "centered" ELSE "scrollable"

initializeDisplay(s) ==
    LET nat == NaturalSize(s)
        fit == FitRatio(s, nat[1], nat[2])
        scaledWidth  == ScaledSize(nat[1], fit, 100)
        scaledHeight == ScaledSize(nat[2], fit, 100)
    IN  WithCursor([s EXCEPT
            !.naturalWidth = nat[1],
            !.naturalHeight = nat[2],
            !.fitRatio = fit,
            !.styleSized = TRUE,
            !.styleWidth = scaledWidth,
            !.styleHeight = scaledHeight,
            !.scrollLeft = 0,
            !.scrollTop = 0,
            !.layoutMode = LayoutModeFor(s, scaledWidth, scaledHeight),
            !.currentZoom = 100,
            !.zoomLevelDisplay = 100])

----------------------------------------------------------------------------
(* zoomController.changeZoom, zoomIn, zoomOut, reset *)

\* variant: the upper limit is not applied
ClampZoom_NoMax(newPercentage) == Max(MIN_ZOOM, newPercentage)

\* Math.max(MIN_ZOOM, Math.min(MAX_ZOOM, newPercentage))
ClampZoom(newPercentage) == Max(MIN_ZOOM, Min(MAX_ZOOM, newPercentage))

\* the default anchor: the viewport center in container coordinates (doubled)
defaultAnchorX2(s) == s.clientWidth  + 2 * s.scrollLeft - horizontalOffset2(s)
defaultAnchorY2(s) == s.clientHeight + 2 * s.scrollTop  - verticalOffset2(s)

\* variant: the anchor is not moved back to the viewport center
AnchoredScroll_NoRecentre(anchor2, oldZoom, newZoom, clientSize) ==
    <<anchor2 * newZoom, 2 * oldZoom>>

\* anchor * ratio - client / 2 with ratio = newScale / oldScale, as the
\* fraction <<numerator, denominator>>; fitRatio cancels in the ratio
AnchoredScroll(anchor2, oldZoom, newZoom, clientSize) ==
    <<anchor2 * newZoom - clientSize * oldZoom, 2 * oldZoom>>

\* the scroll offset one axis gets: the anchored offset clamped to
\* [0, newSize - client] when the axis overflows, 0 when it does not
NewScroll(anchor2, oldZoom, newZoom, newSize, clientSize) ==
    LET target == AnchoredScroll(anchor2, oldZoom, newZoom, clientSize)
    IN  IF newSize > clientSize
        THEN ScrollTo(target[1], target[2], newSize, clientSize)
        ELSE 0

\* options: [has |-> BOOLEAN, anchorX2 |-> Int, anchorY2 |-> Int]
NoAnchor == [has |-> FALSE, anchorX2 |-> 0, anchorY2 |-> 0]

\* variant: the zoom changes although no natural size is stored
changeZoom_NoNaturalGuard(s, newPercentage, options) ==
    LET oldZoom == s.currentZoom
        newZoom == Max(MIN_ZOOM, Min(MAX_ZOOM, newPercentage))
        anchorX2 == IF options.has THEN options.anchorX2
                    ELSE s.clientWidth + 2 * s.scrollLeft - horizontalOffset2(s)
        anchorY2 == IF options.has THEN options.anchorY2
                    ELSE s.clientHeight + 2 * s.scrollTop - verticalOffset2(s)
        newWidth  == (2 * s.naturalWidth * s.fitRatio[1] * newZoom + s.fitRatio[2] * 100)
                        \div (2 * s.fitRatio[2] * 100)
        newHeight == (2 * s.naturalHeight * s.fitRatio[1] * newZoom + s.fitRatio[2] * 100)
                        \div (2 * s.fitRatio[2] * 100)
        left == IF newWidth > s.clientWidth
                THEN Max(0, Min((anchorX2 * newZoom - s.clientWidth * oldZoom + oldZoom)
                                    \div (2 * oldZoom), newWidth - s.clientWidth))
                ELSE 0
        top  == IF newHeight > s.clientHeight
                THEN Max(0, Min((anchorY2 * newZoom - s.clientHeight * oldZoom + oldZoom)
                                    \div (2 * oldZoom), newHeight - s.clientHeight))
                ELSE 0
        sized == [s EXCEPT
                    !.styleSized = TRUE,
                    !.styleWidth = newWidth,
                    !.styleHeight = newHeight,
                    !.layoutMode = IF newWidth <= s.clientWidth /\ newHeight <= s.clientHeight
                                   THEN "centered" ELSE "scrollable",
                    !.scrollLeft = left,
                    !.scrollTop = top,
                    !.currentZoom = newZoom,
                    !.zoomLevelDisplay = newZoom]
    IN  IF oldZoom = newZoom THEN s
        ELSE [sized EXCEPT !.cursor =
                IF ~sized.isModalOpen THEN "none"
                ELSE IF sized.ctrlOrMeta THEN "zoom-in-mode"
                ELSE IF sized.altKey THEN "zoom-out-mode"
                ELSE IF sized.isPanning THEN "pan-dragging"
                ELSE IF sized.currentZoom > 100 THEN "pan-ready"
                ELSE "none"]

changeZoom(s, newPercentage, options) ==
    LET oldZoom == s.currentZoom
        newZoom == ClampZoom(newPercentage)
        anchorX2 == IF options.has THEN options.anchorX2 ELSE defaultAnchorX2(s)
        anchorY2 == IF options.has THEN options.anchorY2 ELSE defaultAnchorY2(s)
        newWidth  == ScaledSize(s.naturalWidth, s.fitRatio, newZoom)
        newHeight == ScaledSize(s.naturalHeight, s.fitRatio, newZoom)
    IN  IF oldZoom = newZoom THEN s
        ELSE IF s.naturalWidth = 0 \/ s.naturalHeight = 0 THEN s
        ELSE WithCursor([s EXCEPT
                !.styleSized = TRUE,
                !.styleWidth = newWidth,
                !.styleHeight = newHeight,
                !.layoutMode = LayoutModeFor(s, newWidth, newHeight),
                !.scrollLeft = NewScroll(anchorX2, oldZoom, newZoom, newWidth, s.clientWidth),
                !.scrollTop = NewScroll(anchorY2, oldZoom, newZoom, newHeight, s.clientHeight),
                !.currentZoom = newZoom,
                !.zoomLevelDisplay = newZoom])

\* variant: one click zooms in by two steps
zoomIn_TwoSteps(s) == changeZoom(s, s.currentZoom + 2 * ZOOM_STEP, NoAnchor)

zoomIn(s)  == changeZoom(s, s.currentZoom + ZOOM_STEP, NoAnchor)

\* variant: one click zooms out by half a step
zoomOut_HalfStep(s) == changeZoom(s, s.currentZoom - (ZOOM_STEP \div 2), NoAnchor)

zoomOut(s) == changeZoom(s, s.currentZoom - ZOOM_STEP, NoAnchor)
reset(s)   == initializeDisplay(s)

----------------------------------------------------------------------------
(* modalZoomManager.openModal, closeModal *)

\* complete: whether the cloned <img> is already loaded (cached) at open
openModal(s, diagramElement, complete) ==
    LET shown == [s EXCEPT
            !.content = diagramElement,
            !.imgState = IF diagramElement.kind # "img" THEN "none"
                         ELSE IF complete THEN "loaded" ELSE "pending",
            !.imgHandlers = FALSE,
            !.isModalOpen = TRUE,
            !.currentDiagram = diagramElement]
    IN  IF diagramElement.kind = "img" /\ ~complete
        THEN [shown EXCEPT !.imgHandlers = TRUE]
        ELSE initializeDisplay(shown)

\* variant: the pending image keeps its onload / onerror handlers
releaseImageHandlers_Skipped(s) == s

\* closeModal's clean-up of the container's <img>: onload = onerror = null
releaseImageHandlers(s) == [s EXCEPT !.imgHandlers = FALSE]

\* container.innerHTML = '': the content leaves the document; an <img> that
\* was still loading goes on loading detached, with the handlers it has
detachContent(s) ==
    [s EXCEPT
        !.staleImg = @ \/ s.imgState = "pending",
        !.staleHandlers = @ \/ (s.imgState = "pending" /\ s.imgHandlers),
        !.imgHandlers = FALSE,
        !.content = NoDiagram,
        !.imgState = "none"]

\* variant: the container keeps its explicit size
closeModal_KeepsSize(s) ==
    WithCursor([detachContent([s EXCEPT !.imgHandlers = FALSE]) EXCEPT
        !.scrollLeft = 0,
        !.scrollTop = 0,
        !.currentZoom = 100,
        !.fitRatio = <<1, 1>>,
        !.naturalWidth = 0,
        !.naturalHeight = 0,
        !.zoomLevelDisplay = 100,
        !.isModalOpen = FALSE,
        !.currentDiagram = NoDiagram,
        !.ctrlOrMeta = FALSE,
        !.altKey = FALSE])

closeModal(s) ==
    WithCursor([detachContent(releaseImageHandlers(s)) EXCEPT
        !.scrollLeft = 0,
        !.scrollTop = 0,
        !.styleSized = FALSE,
        !.styleWidth = 0,
        !.styleHeight = 0,
        !.currentZoom = 100,
        !.fitRatio = <<1, 1>>,
        !.naturalWidth = 0,
        !.naturalHeight = 0,
        !.zoomLevelDisplay = 100,
        !.isModalOpen = FALSE,
        !.currentDiagram = NoDiagram,
        !.ctrlOrMeta = FALSE,
        !.altKey = FALSE])

----------------------------------------------------------------------------
(* panController *)

\* event: [button, ctrlOrMeta, altKey, x, y], x and y relative to the viewport
startDrag(s, event) ==
    IF event.button # 0 THEN s
    ELSE IF s.currentZoom <= 100 THEN s
    ELSE IF event.ctrlOrMeta \/ event.altKey THEN s
    ELSE WithCursor([s EXCEPT
            !.isPanning = TRUE,
            !.startX = event.x,
            !.startY = event.y,
            !.panScrollLeft = s.scrollLeft,
            !.panScrollTop = s.scrollTop])

\* variant: the content follows the pointer the wrong way
drag_Inverted(s, event) ==
    IF ~s.isPanning THEN s
    ELSE [s EXCEPT
            !.scrollLeft = Max(0, Min(s.panScrollLeft + (event.x - s.startX) * 2,
                                      Max(0, offsetWidth(s) - s.clientWidth))),
            !.scrollTop = Max(0, Min(s.panScrollTop + (event.y - s.startY) * 2,
                                     Max(0, offsetHeight(s) - s.clientHeight)))]

drag(s, event) ==
    IF ~s.isPanning THEN s
    ELSE LET walkX == (event.x - s.startX) * 2
             walkY == (event.y - s.startY) * 2
         IN  [s EXCEPT
                !.scrollLeft = ScrollTo(s.panScrollLeft - walkX, 1, offsetWidth(s), s.clientWidth),
                !.scrollTop = ScrollTo(s.panScrollTop - walkY, 1, offsetHeight(s), s.clientHeight)]

endDrag(s) ==
    IF ~s.isPanning THEN s
    ELSE WithCursor([s EXCEPT !.isPanning = FALSE])

----------------------------------------------------------------------------
(* syncModifierStateFromEvent, getContainerAnchorFromEvent *)

syncModifierStateFromEvent(s, event) ==
    IF s.ctrlOrMeta = event.ctrlOrMeta /\ s.altKey = event.altKey THEN s
    ELSE WithCursor([s EXCEPT
            !.ctrlOrMeta = event.ctrlOrMeta,
            !.altKey = event.altKey])

\* the clicked point in container coordinates (doubled), clamped to the container
getContainerAnchorFromEvent(s, event) ==
    LET rawAnchorX2 == 2 * event.x + 2 * s.scrollLeft - horizontalOffset2(s)
        rawAnchorY2 == 2 * event.y + 2 * s.scrollTop - verticalOffset2(s)
    IN  [has |-> TRUE,
         anchorX2 |-> Min(2 * offsetWidth(s), Max(0, rawAnchorX2)),
         anchorY2 |-> Min(2 * offsetHeight(s), Max(0, rawAnchorY2))]


----------------------------------------------------------------------------
(* DOM event listeners *)

Keys == {"Escape", "+", "=", "-", "0", "Control", "Alt"}

\* keydown events: the shortcuts with Ctrl/Cmd held, "+" and Escape without,
\* and the modifier keys going down
KeyDownEvents ==
    { e \in [key : Keys, ctrlOrMeta : BOOLEAN, altKey : BOOLEAN] :
        /\ e.key \in {"=", "-", "0", "Control"} => e.ctrlOrMeta
        /\ e.key = "Escape" => ~e.ctrlOrMeta
        /\ e.key = "Alt" <=> e.altKey }

\* keyup events: a modifier key going up, the other one held or not
KeyUpEvents ==
    { e \in [key : {"Control", "Alt"}, ctrlOrMeta : BOOLEAN, altKey : BOOLEAN] :
        /\ e.key = "Control" => ~e.ctrlOrMeta
        /\ e.key = "Alt" => ~e.altKey }

\* mouse events: the primary button with any modifiers, the secondary plain
MouseEvents ==
    { [button |-> 0, ctrlOrMeta |-> c, altKey |-> a, x |-> p[1], y |-> p[2]] :
        c \in BOOLEAN, a \in BOOLEAN, p \in Pointers }
    \cup { [button |-> 2, ctrlOrMeta |-> FALSE, altKey |-> FALSE, x |-> p[1], y |-> p[2]] :
            p \in Pointers }

MoveEvents ==
    { [button |-> 0, ctrlOrMeta |-> FALSE, altKey |-> FALSE, x |-> p[1], y |-> p[2]] :
        p \in MovePointers }

\* document 'click' on a .diagram-clickable element
onDiagramClick(s, diagramElement, complete) == openModal(s, diagramElement, complete)

\* #modal-close 'click' and the backdrop 'click'
onCloseClick(s) == closeModal(s)

\* variant: the keydown listener does not look at isOpen()
onKeyDown_Unguarded(s, e) ==
    LET s1 == IF e.key = "Escape" /\ s.isModalOpen THEN closeModal(s) ELSE s
        s2 == syncModifierStateFromEvent(s1, e)
        s3 == IF e.ctrlOrMeta /\ e.key \in {"+", "="} THEN zoomIn(s2) ELSE s2
        s4 == IF e.ctrlOrMeta /\ e.key = "-" THEN zoomOut(s3) ELSE s3
    IN  IF e.ctrlOrMeta /\ e.key = "0" THEN reset(s4) ELSE s4

\* document 'keydown'
onKeyDown(s, e) ==
    LET s1 == IF e.key = "Escape" /\ s.isModalOpen THEN closeModal(s) ELSE s
        s2 == syncModifierStateFromEvent(s1, e)
        s3 == IF e.ctrlOrMeta /\ e.key \in {"+", "="} THEN zoomIn(s2) ELSE s2
        s4 == IF e.ctrlOrMeta /\ e.key = "-" THEN zoomOut(s3) ELSE s3
        s5 == IF e.ctrlOrMeta /\ e.key = "0" THEN reset(s4) ELSE s4
    IN  IF ~s1.isModalOpen THEN s1 ELSE s5

\* document 'keyup'
onKeyUp(s, e) ==
    IF ~s.isModalOpen THEN s ELSE syncModifierStateFromEvent(s, e)

\* #modal-zoom-in, #modal-zoom-out, #modal-zoom-reset 'click'
onZoomInClick(s)  == zoomIn(s)
onZoomOutClick(s) == zoomOut(s)
onResetClick(s)   == reset(s)

\* variant: Ctrl/Cmd zooms in whether or not Alt is held as well
onViewportClick_CtrlWins(s, e) ==
    IF ~s.isModalOpen THEN s
    ELSE IF e.button # 0 THEN s
    ELSE IF e.ctrlOrMeta
         THEN changeZoom(s, s.currentZoom + ZOOM_STEP, getContainerAnchorFromEvent(s, e))
    ELSE IF e.altKey
         THEN changeZoom(s, s.currentZoom - ZOOM_STEP, getContainerAnchorFromEvent(s, e))
    ELSE s

\* viewport 'click'
onViewportClick(s, e) ==
    IF ~s.isModalOpen THEN s
    ELSE IF e.button # 0 THEN s
    ELSE IF e.ctrlOrMeta /\ ~e.altKey
         THEN changeZoom(s, s.currentZoom + ZOOM_STEP, getContainerAnchorFromEvent(s, e))
    ELSE IF e.altKey /\ ~e.ctrlOrMeta
         THEN changeZoom(s, s.currentZoom - ZOOM_STEP, getContainerAnchorFromEvent(s, e))
    ELSE s

\* viewport 'mousedown', 'mousemove', 'mouseup' / 'mouseleave'
onMouseDown(s, e) == startDrag(s, e)
onMouseMove(s, e) == drag(s, e)
onMouseUp(s)      == endDrag(s)

\* the pending <img>'s onload / onerror
onImageLoad(s)  == initializeDisplay([s EXCEPT !.imgState = "loaded"])

\* variant: the error of the pending image is ignored
onImageError_Ignored(s) == s

onImageError(s) == initializeDisplay([s EXCEPT !.imgState = "failed"])

\* the load / error event of an <img> that left the document while loading:
\* it runs the handler the image still has, if any
onStaleImageEvent(s) ==
    LET gone == [s EXCEPT !.staleImg = FALSE, !.staleHandlers = FALSE]
    IN  IF s.staleHandlers THEN initializeDisplay(gone) ELSE gone

----------------------------------------------------------------------------
(* The extension host: src/extension.ts and services/PlantUMLServer.ts *)

\* PlantUMLServer.PORT_RANGE_START; the range explored has PortCount ports
PORT_RANGE_START == 18000
PortCount == 2
Ports == PORT_RANGE_START .. (PORT_RANGE_START + PortCount - 1)

\* at most MaxServers PlantUMLServer objects are created in one behaviour
MaxServers == 3

\* the plantuml settings a call of initializePlantUMLServer reads: the mode,
\* and whether the JAR path, Java and the JAR pass the checks
Configs == [mode : {"online", "local"}, valid : BOOLEAN]

\* a PlantUMLServer object.  process: this.process is not null; pc: where
\* its start() call is; alive, listening: the Java process it spawned is
\* running, and has bound its port
NewServer ==
    [process |-> FALSE, port |-> 0, isReady |-> FALSE, pc |-> "findingPort",
     alive |-> FALSE, listening |-> FALSE]

\* no PlantUMLServer object: the module variable plantUMLServer is undefined
NoServer == 0

\* no panel: the module variable currentPanel is undefined
NoPanel == 0

InitHost ==
    [phase |-> "inactive", plantUMLServer |-> NoServer, serverInstance |-> NoServer,
     servers |-> <<>>,
     currentPanel |-> NoPanel, panels |-> <<>>, docVersion |-> 0]

\* PlantUMLServer.stop of server i; SIGTERM ends the Java process
stop(h, i) ==
    IF h.servers[i].process
    THEN [h EXCEPT !.servers[i].alive = FALSE,
                   !.servers[i].listening = FALSE,
                   !.servers[i].process = FALSE,
                   !.servers[i].isReady = FALSE]
    ELSE h

\* whether a port can be bound: no running process of the model holds it
isPortAvailable(h, port) ==
    \A i \in 1..Len(h.servers) :
        ~(h.servers[i].alive /\ h.servers[i].listening /\ h.servers[i].port = port)

\* the first available port of the range, 0 when there is none
findAvailablePort(h) ==
    IF \E p \in Ports : isPortAvailable(h, p)
    THEN CHOOSE p \in Ports :
            /\ isPortAvailable(h, p)
            /\ \A q \in Ports : isPortAvailable(h, q) => p <= q
    ELSE 0

\* initializePlantUMLServer up to the first await of start(): returns in
\* online mode, throws when a check fails, else creates a PlantUMLServer,
\* assigns it to plantUMLServer and calls start(), which goes on to find a port
initializePlantUMLServer(h, cfg) ==
    IF cfg.mode # "local" \/ ~cfg.valid THEN h
    ELSE [h EXCEPT !.servers = Append(@, NewServer),
                   !.plantUMLServer = Len(h.servers) + 1]

\* whether the last call of initializePlantUMLServer is still inside start()
Starting(h) ==
    /\ h.plantUMLServer # NoServer
    /\ h.servers[h.plantUMLServer].pc \in {"findingPort", "waitForReady"}

\* activate: the commands and listeners are registered once the awaited
\* initializePlantUMLServer has returned or thrown
activate(h, cfg) ==
    LET called == initializePlantUMLServer(h, cfg)
    IN  [called EXCEPT !.phase = IF Starting(called) THEN "activating" ELSE "active"]

\* the onDidChangeConfiguration listener up to the first await
onDidChangeConfiguration(h, cfg) ==
    LET stopped == IF h.plantUMLServer # NoServer
                   THEN [stop(h, h.plantUMLServer) EXCEPT
                            !.plantUMLServer = NoServer,
                            !.serverInstance = NoServer]
                   ELSE h
    IN  initializePlantUMLServer(stopped, cfg)

\* deactivate, and the disposal of context.subscriptions that follows it
deactivate(h) ==
    LET stopped == IF h.plantUMLServer # NoServer
                   THEN [stop(h, h.plantUMLServer) EXCEPT !.serverInstance = NoServer]
                   ELSE h
    IN  [stopped EXCEPT !.phase = "deactivated"]

\* start() of server i after its port search: this.port is set and the Java
\* process spawned; when no port is available the search throws
spawnServer(h, i) ==
    LET port == findAvailablePort(h)
    IN  IF port = 0
        THEN [h EXCEPT !.servers[i].pc = "thrown"]
        ELSE [h EXCEPT !.servers[i].port = port,
                       !.servers[i].process = TRUE,
                       !.servers[i].alive = TRUE,
                       !.servers[i].pc = "waitForReady"]

\* the continuation of activate / the listener once start() of server i has
\* returned or thrown
afterStart(h) == [h EXCEPT !.phase = IF @ = "activating" THEN "active" ELSE @]

\* whether a GET to the port of server i is answered
Answered(h, i) ==
    \E j \in 1..Len(h.servers) :
        /\ h.servers[j].alive /\ h.servers[j].listening
        /\ h.servers[j].port = h.servers[i].port

\* waitForReady of server i got a response: isReady = true, start() returns
\* and initializePlantUMLServer hands plantUMLServer to the renderer
serverReady(h, i) ==
    afterStart([h EXCEPT !.servers[i].isReady = TRUE,
                         !.servers[i].pc = "returned",
                         !.serverInstance = h.plantUMLServer])

\* waitForReady of server i gave up after its 30 attempts: start() throws
serverTimedOut(h, i) == afterStart([h EXCEPT !.servers[i].pc = "thrown"])

\* the 'exit' event of the Java process of server i
onProcessExit(h, i) ==
    [h EXCEPT !.servers[i].alive = FALSE,
              !.servers[i].listening = FALSE,
              !.servers[i].isReady = FALSE]

\* the Java processes started by the extension that are running
AliveProcesses(h) == { i \in 1..Len(h.servers) : h.servers[i].alive }

----------------------------------------------------------------------------
(* The preview panel: src/preview/PreviewPanel.ts and its callers in       *)
(* src/extension.ts                                                        *)

\* at most MaxPanels panels are created and MaxEdits edits made in one behaviour
MaxPanels == 2
MaxEdits == 2

\* a PreviewPanel as its constructor leaves it.  updateTimeout: a debounce
\* timer is pending; inFlight: the document versions of the updateContent
\* calls that are awaiting processor.process; html: the document version
\* panel.webview.html was last assigned from (-1: never assigned);
\* assignedAfterDispose: history, an assignment ran with isDisposed set
NewPanel(version) ==
    [isDisposed |-> FALSE, updateTimeout |-> FALSE, inFlight |-> <<version>>,
     html |-> -1, assignedAfterDispose |-> FALSE]

\* PreviewPanel.update: ignored once disposed, else the debounce timer is
\* cleared and set again
update(p) ==
    IF p.isDisposed THEN p ELSE [p EXCEPT !.updateTimeout = TRUE]

\* updateContent up to its await: the document text is read and handed to
\* processor.process
updateContentStart(p, version) == [p EXCEPT !.inFlight = Append(@, version)]

\* updateContent after its await: panel.webview.html is assigned
updateContentResume(p) ==
    [p EXCEPT !.html = Head(p.inFlight),
              !.inFlight = Tail(@),
              !.assignedAfterDispose = @ \/ p.isDisposed]

\* PreviewPanel.dispose: isDisposed is set and the debounce timer cleared
dispose(p) == [p EXCEPT !.isDisposed = TRUE, !.updateTimeout = FALSE]

\* openOrUpdatePreview: the current panel is revealed and updated, or a new
\* panel is created, whose constructor calls updateContent
openOrUpdatePreview(h) ==
    IF h.currentPanel # NoPanel /\ ~h.panels[h.currentPanel].isDisposed
    THEN [h EXCEPT !.panels[h.currentPanel] = update(@)]
    ELSE [h EXCEPT !.panels = Append(@, NewPanel(h.docVersion)),
                   !.currentPanel = Len(h.panels) + 1]

\* the onDidChangeTextDocument listener, after an edit of the document
onDidChangeTextDocument(h) ==
    LET edited == [h EXCEPT !.docVersion = @ + 1]
    IN  IF h.currentPanel # NoPanel
        THEN [edited EXCEPT !.panels[h.currentPanel] = update(@)]
        ELSE edited

\* panel i is disposed; the callback registered with onDispose clears currentPanel
onDispose(h, i) ==
    [h EXCEPT !.panels[i] = dispose(@), !.currentPanel = NoPanel]

\* whether a continuation of updateContent is waiting to run
Awaiting(h) == \E i \in 1..Len(h.panels) : h.panels[i].inFlight # <<>>

----------------------------------------------------------------------------
(* The state machine *)

\* the state the script's IIFE leaves, in a viewport of client size v
InitState(v) ==
    [ isModalOpen |-> FALSE, currentDiagram |-> NoDiagram,
      content |-> NoDiagram, imgState |-> "none", imgHandlers |-> FALSE,
      staleImg |-> FALSE, staleHandlers |-> FALSE,
      currentZoom |-> 100, fitRatio |-> <<1, 1>>,
      naturalWidth |-> 0, naturalHeight |-> 0, zoomLevelDisplay |-> 100,
      styleSized |-> FALSE, styleWidth |-> 0, styleHeight |-> 0,
      scrollLeft |-> 0, scrollTop |-> 0,
      clientWidth |-> v[1], clientHeight |-> v[2],
      layoutMode |-> "none", cursor |-> "none",
      ctrlOrMeta |-> FALSE, altKey |-> FALSE,
      isPanning |-> FALSE, startX |-> 0, startY |-> 0,
      panScrollLeft |-> 0, panScrollTop |-> 0 ]

\* Open(Ready): the modal is open and not waiting for its image
Ready(s) == s.isModalOpen /\ s.imgState # "pending"

\* what an event changed apart from the modifier keys and the cursor class
Geometry(s) == [s EXCEPT !.ctrlOrMeta = FALSE, !.altKey = FALSE, !.cursor = "none"]

\* where the container's left / top edge is displayed, relative to the
\* viewport's, in doubled pixels: its layout offset less the scroll offset
ContainerLeft2(s) == horizontalOffset2(s) - 2 * s.scrollLeft
ContainerTop2(s)  == verticalOffset2(s) - 2 * s.scrollTop

\* the zoom state, the container and the viewport as a request finds them
View(s) ==
    [ ready |-> Ready(s),
      currentZoom |-> s.currentZoom, fitRatio |-> s.fitRatio,
      naturalWidth |-> s.naturalWidth, naturalHeight |-> s.naturalHeight,
      width |-> offsetWidth(s), height |-> offsetHeight(s),
      scrollLeft |-> s.scrollLeft, scrollTop |-> s.scrollTop,
      layoutMode |-> s.layoutMode,
      left2 |-> ContainerLeft2(s), top2 |-> ContainerTop2(s) ]

Scrolls(s) == s.isModalOpen /\ s.layoutMode = "scrollable"

\* the requests the history variable last records
TrackedOps ==
    {"open", "load", "error", "reset", "zoomIn", "zoomOut", "clickIn", "clickOut", "stale",
     "ignored"}
NoLast  == [op |-> "other", x |-> 0, y |-> 0, pre |-> View(InitState(Viewport))]
NoFirst == [set |-> FALSE, fitRatio |-> <<1, 1>>, width |-> 0, height |-> 0]
NoTrip  == [phase |-> 0, cycles |-> 0, origin |-> View(InitState(Viewport))]

\* whether request op ran initializeDisplay on the way to state new
RanInit(op, new) ==
    \/ op \in {"load", "error", "reset"}
    \/ op = "open" /\ new.imgState # "pending"

\* one event handled: new is the state its listener leaves, op the request
\* it carried, e its pointer position.  Once the viewport has had to scroll,
\* a reset was requested, a pending image has answered or the modal was
\* closed on a pending image, at most MaxTail
\* further events that change more than the modifier keys are explored, and
\* at most MaxResets reset requests.
\* The answer of a pending image is never held back.
Handle(new, op, e) ==
    LET counted == /\ Geometry(new) # Geometry(st)
                   /\ op # "reset"
                   /\ (tail > 0 \/ Scrolls(new) \/ resets > 0 \/ op \in {"load", "error"}
                            \/ new.staleImg)
    IN  /\ (counted /\ op \notin {"load", "error"}) => tail < MaxTail
        /\ st' = new
        /\ tail' = IF counted THEN Min(tail + 1, MaxTail) ELSE tail
        /\ last' = IF op \in TrackedOps
                   THEN [op |-> op, x |-> e.x, y |-> e.y, pre |-> View(st)]
                   ELSE NoLast
        /\ first' = IF ~new.isModalOpen THEN NoFirst
                    ELSE IF RanInit(op, new) /\ (op = "open" \/ ~first.set)
                    THEN [set |-> TRUE, fitRatio |-> new.fitRatio,
                          width |-> new.styleWidth, height |-> new.styleHeight]
                    ELSE IF op = "open" THEN NoFirst
                    ELSE first
        /\ UNCHANGED <<page, trip, host>>

NoPointer == [x |-> 0, y |-> 0]

DiagramClick ==
    /\ ~st.isModalOpen
    /\ \E d \in page, complete \in BOOLEAN :
          /\ (d.kind # "img" => complete)
          /\ Handle(onDiagramClick(st, d, complete), "open", NoPointer)
    /\ UNCHANGED resets

CloseClick == Handle(onCloseClick(st), "close", NoPointer) /\ UNCHANGED resets

\* the request a keydown carries
KeyOp(s, e) ==
    IF ~s.isModalOpen THEN "ignored"
    ELSE IF e.key = "Escape" THEN "close"
    ELSE IF e.ctrlOrMeta /\ e.key \in {"+", "="} THEN "zoomIn"
    ELSE IF e.ctrlOrMeta /\ e.key = "-" THEN "zoomOut"
    ELSE IF e.ctrlOrMeta /\ e.key = "0" THEN "reset"
    ELSE "other"

KeyDown ==
    \E e \in KeyDownEvents :
        LET op == KeyOp(st, e)
        IN  /\ op = "reset" => resets < MaxResets
            /\ Handle(onKeyDown(st, e), op, NoPointer)
            /\ resets' = IF op = "reset" THEN resets + 1 ELSE resets

KeyUp == (\E e \in KeyUpEvents : Handle(onKeyUp(st, e), "other", NoPointer)) /\ UNCHANGED resets

ZoomInClick  == Handle(onZoomInClick(st), "zoomIn", NoPointer) /\ UNCHANGED resets
ZoomOutClick == Handle(onZoomOutClick(st), "zoomOut", NoPointer) /\ UNCHANGED resets

ResetClick ==
    /\ resets < MaxResets
    /\ Handle(onResetClick(st), "reset", NoPointer)
    /\ resets' = resets + 1

\* the request a viewport click carries
ClickOp(s, e) ==
    IF ~s.isModalOpen THEN "ignored"
    ELSE IF e.button # 0 THEN "other"
    ELSE IF e.ctrlOrMeta /\ ~e.altKey THEN "clickIn"
    ELSE IF e.altKey /\ ~e.ctrlOrMeta THEN "clickOut"
    ELSE "other"

ViewportClick ==
    /\ \E e \in MouseEvents : Handle(onViewportClick(st, e), ClickOp(st, e), e)
    /\ UNCHANGED resets

MouseDown == (\E e \in MouseEvents : Handle(onMouseDown(st, e), "other", e)) /\ UNCHANGED resets
MouseMove == (\E e \in MoveEvents : Handle(onMouseMove(st, e), "other", e)) /\ UNCHANGED resets
MouseUp   == Handle(onMouseUp(st), "other", NoPointer) /\ UNCHANGED resets

ImageLoad ==
    /\ st.imgHandlers /\ st.imgState = "pending"
    /\ Handle(onImageLoad(st), "load", NoPointer)
    /\ UNCHANGED resets
ImageError ==
    /\ st.imgHandlers /\ st.imgState = "pending"
    /\ Handle(onImageError(st), "error", NoPointer)
    /\ UNCHANGED resets

\* the event of an image that was still loading when its session was closed
StaleImageEvent ==
    /\ st.staleImg
    /\ Handle(onStaleImageEvent(st), "stale", NoPointer)
    /\ UNCHANGED resets

Init ==
    /\ st = InitState(Viewport)
    /\ page = Diagrams
    /\ last = NoLast
    /\ first = NoFirst
    /\ trip = NoTrip
    /\ tail = 0
    /\ resets = 0
    /\ host = InitHost

Next ==
    \/ DiagramClick
    \/ CloseClick
    \/ KeyDown
    \/ KeyUp
    \/ ZoomInClick
    \/ ZoomOutClick
    \/ ResetClick
    \/ ViewportClick
    \/ MouseDown
    \/ MouseMove
    \/ MouseUp
    \/ ImageLoad
    \/ ImageError
    \/ StaleImageEvent

Spec == Init /\ [][Next]_vars

\* The listeners on a page whose only diagram is image-backed, with the
\* browser's guarantee that an image that is loading ends in a load or an
\* error event.  The event can be delivered exactly while the image is
\* pending with its handlers installed, so the guarantee is weak fairness of
\* the two image actions; ImageEventFair is WF_vars(ImageLoad \/ ImageError)
\* with that enabling condition written out.
ImagePending(s) == s.imgHandlers /\ s.imgState = "pending"

ImageEventFair ==
    \/ []<>~ImagePending(st)
    \/ []<><<ImageLoad \/ ImageError>>_vars

InitLoad ==
    /\ st = InitState(Viewport)
    /\ page = {d \in Diagrams : d.kind = "img"}
    /\ last = NoLast
    /\ first = NoFirst
    /\ trip = NoTrip
    /\ tail = 0
    /\ resets = 0
    /\ host = InitHost

SpecLoad == InitLoad /\ [][Next]_vars /\ ImageEventFair

----------------------------------------------------------------------------
(* initializeDisplay over a range of natural sizes and viewports: a preview *)
(* page with one diagram, opened, reset and closed                          *)

Viewports == { <<800, 600>>, <<1024, 768>>, <<400, 300>> }
FitSizes  == {1, 100, 285, 286, 380, 381, 570, 571, 760, 761, 780, 800, 1600, 4000}

FitDiagrams ==
    { [kind |-> k, w |-> w, h |-> h,
       bw |-> IF k = "svg" THEN Max(0, w - BBOX_MARGIN) ELSE 0,
       bh |-> IF k = "svg" THEN Max(0, h - BBOX_MARGIN) ELSE 0] :
        k \in {"svg", "img"}, w \in FitSizes, h \in FitSizes }

InitFit ==
    /\ \E v \in Viewports : st = InitState(v)
    /\ \E d \in FitDiagrams : page = {d}
    /\ last = NoLast
    /\ first = NoFirst
    /\ trip = NoTrip
    /\ tail = 0
    /\ resets = 0
    /\ host = InitHost

NextFit ==
    \/ DiagramClick
    \/ CloseClick
    \/ ResetClick
    \/ ImageLoad
    \/ ImageError

SpecFit == InitFit /\ [][NextFit]_vars

----------------------------------------------------------------------------
(* zoom-in, zoom-in, zoom-out, zoom-out round trips from Open(Ready) states *)

RECURSIVE ZoomTo(_, _)
\* the state zoom-in / zoom-out clicks lead to from s, up or down to zoom z
ZoomTo(s, z) ==
    IF s.currentZoom = z \/ s.naturalWidth = 0 THEN s
    ELSE IF s.currentZoom < z THEN ZoomTo(onZoomInClick(s), z)
    ELSE ZoomTo(onZoomOutClick(s), z)

PlainMouse(p) == [button |-> 0, ctrlOrMeta |-> FALSE, altKey |-> FALSE, x |-> p[1], y |-> p[2]]

\* a drag: button down at from, move to to, button up
Pan(s, from, to) ==
    onMouseUp(onMouseMove(onMouseDown(s, PlainMouse(from)), PlainMouse(to)))

TripZooms == {10, 50, 90, 100, 110, 130, 200, 500, 980}
TripDrags ==
    { <<<<400, 300>>, <<400, 300>>>>, <<<<380, 290>>, <<350, 270>>>>,
      <<<<10, 10>>, <<790, 590>>>>, <<<<790, 590>>, <<10, 10>>>> }

\* Open(Ready) states: a diagram opened, zoomed to z and dragged
TripOrigins ==
    { Pan(ZoomTo(onDiagramClick(InitState(Viewport), d, TRUE), z), g[1], g[2]) :
        d \in Diagrams, z \in TripZooms, g \in TripDrags }

InitTrip ==
    /\ st \in TripOrigins
    /\ page = Diagrams
    /\ last = NoLast
    /\ first = NoFirst
    /\ trip = [phase |-> 0, cycles |-> 0, origin |-> View(st)]
    /\ tail = 0
    /\ resets = 0
    /\ host = InitHost

TripZoomIn ==
    /\ trip.phase \in {0, 1}
    /\ trip.cycles < MaxCycles
    /\ st' = onZoomInClick(st)
    /\ trip' = [trip EXCEPT !.phase = @ + 1]
    /\ UNCHANGED <<page, last, first, tail, resets, host>>

TripZoomOut ==
    /\ trip.phase \in {2, 3}
    /\ st' = onZoomOutClick(st)
    /\ trip' = [trip EXCEPT !.phase = (@ + 1) % 4,
                            !.cycles = IF trip.phase = 3 THEN @ + 1 ELSE @]
    /\ UNCHANGED <<page, last, first, tail, resets, host>>

NextTrip ==
    \/ TripZoomIn
    \/ TripZoomOut

SpecTrip == InitTrip /\ [][NextTrip]_vars

----------------------------------------------------------------------------
(* The PlantUML server's life cycle: activation, configuration changes,    *)
(* the steps of start() and of the Java processes, and deactivation        *)

Activate ==
    /\ host.phase = "inactive"
    /\ \E cfg \in Configs : host' = activate(host, cfg)
    /\ UNCHANGED <<st, page, last, first, trip, tail, resets>>

ConfigChange ==
    /\ host.phase = "active"
    /\ \E cfg \in Configs :
          /\ (cfg.mode = "local" /\ cfg.valid) => Len(host.servers) < MaxServers
          /\ host' = onDidChangeConfiguration(host, cfg)
    /\ UNCHANGED <<st, page, last, first, trip, tail, resets>>

Deactivate ==
    /\ host.phase = "active"
    /\ host' = deactivate(host)
    /\ UNCHANGED <<st, page, last, first, trip, tail, resets>>

FindPortDone ==
    /\ \E i \in 1..Len(host.servers) :
          /\ host.servers[i].pc = "findingPort"
          /\ host' = IF findAvailablePort(host) = 0
                     THEN afterStart(spawnServer(host, i))
                     ELSE spawnServer(host, i)
    /\ UNCHANGED <<st, page, last, first, trip, tail, resets>>

ProcessListens ==
    /\ \E i \in 1..Len(host.servers) :
          /\ host.servers[i].alive /\ ~host.servers[i].listening
          /\ isPortAvailable(host, host.servers[i].port)
          /\ host' = [host EXCEPT !.servers[i].listening = TRUE]
    /\ UNCHANGED <<st, page, last, first, trip, tail, resets>>

ProcessExit ==
    /\ \E i \in 1..Len(host.servers) :
          /\ host.servers[i].alive
          /\ host' = onProcessExit(host, i)
    /\ UNCHANGED <<st, page, last, first, trip, tail, resets>>

WaitForReadyDone ==
    /\ \E i \in 1..Len(host.servers) :
          /\ host.servers[i].pc = "waitForReady"
          /\ Answered(host, i)
          /\ host' = serverReady(host, i)
    /\ UNCHANGED <<st, page, last, first, trip, tail, resets>>

WaitForReadyTimeout ==
    /\ \E i \in 1..Len(host.servers) :
          /\ host.servers[i].pc = "waitForReady"
          /\ ~Answered(host, i)
          /\ host' = serverTimedOut(host, i)
    /\ UNCHANGED <<st, page, last, first, trip, tail, resets>>

NextServer ==
    \/ Activate
    \/ ConfigChange
    \/ Deactivate
    \/ FindPortDone
    \/ ProcessListens
    \/ ProcessExit
    \/ WaitForReadyDone
    \/ WaitForReadyTimeout

SpecServer == Init /\ [][NextServer]_vars

----------------------------------------------------------------------------
(* The preview panel's life cycle.  PreviewPanel's methods are public: the  *)
(* code that creates or updates a panel can dispose it before it returns    *)
(* to the event loop, so a dispose can find an updateContent awaiting.  A   *)
(* timer callback is a task of its own: it runs when no continuation waits. *)

OpenPreview ==
    /\ (host.currentPanel = NoPanel \/ host.panels[host.currentPanel].isDisposed)
            => Len(host.panels) < MaxPanels
    /\ host' = openOrUpdatePreview(host)
    /\ UNCHANGED <<st, page, last, first, trip, tail, resets>>

EditDocument ==
    /\ host.docVersion < MaxEdits
    /\ host' = onDidChangeTextDocument(host)
    /\ UNCHANGED <<st, page, last, first, trip, tail, resets>>

TimerFires ==
    /\ ~Awaiting(host)
    /\ \E i \in 1..Len(host.panels) :
          /\ host.panels[i].updateTimeout
          /\ host' = [host EXCEPT !.panels[i] =
                        updateContentStart([@ EXCEPT !.updateTimeout = FALSE], host.docVersion)]
    /\ UNCHANGED <<st, page, last, first, trip, tail, resets>>

ContentReady ==
    /\ \E i \in 1..Len(host.panels) :
          /\ host.panels[i].inFlight # <<>>
          /\ host' = [host EXCEPT !.panels[i] = updateContentResume(@)]
    /\ UNCHANGED <<st, page, last, first, trip, tail, resets>>

DisposePanel ==
    /\ \E i \in 1..Len(host.panels) :
          /\ ~host.panels[i].isDisposed
          /\ host' = onDispose(host, i)
    /\ UNCHANGED <<st, page, last, first, trip, tail, resets>>

\* update() called on a panel after its disposal, by a holder of the object
UpdateDisposed ==
    /\ \E i \in 1..Len(host.panels) :
          /\ host.panels[i].isDisposed
          /\ host' = [host EXCEPT !.panels[i] = update(@)]
    /\ UNCHANGED <<st, page, last, first, trip, tail, resets>>

NextPanel ==
    \/ OpenPreview
    \/ EditDocument
    \/ TimerFires
    \/ ContentReady
    \/ DisposePanel
    \/ UpdateDisposed

SpecPanel == Init /\ [][NextPanel]_vars

----------------------------------------------------------------------------
(* Properties *)

\* the pixel tolerance of the end-to-end tests
TOLERANCE == 5

\* One axis of "the content point displayed at point2 stays there".  point2 is
\* a viewport position, preLeft2 / postLeft2 the container's displayed edge
\* before / after (all in doubled pixels), preSize the container's size
\* before.  The content point under point2 lies a2 / 2 into the container; it
\* exists when 0 <= a2 <= 2 * preSize, scales with newZoom / oldZoom, and must
\* be displayed within TOLERANCE of point2 afterwards.
Held(point2, preLeft2, preSize, postLeft2, oldZoom, newZoom) ==
    LET a2 == point2 - preLeft2
    IN  (0 <= a2 /\ a2 <= 2 * preSize)
            => Abs(a2 * newZoom + (postLeft2 - point2) * oldZoom) <= 2 * TOLERANCE * oldZoom

\* C1: after a center-anchored zoom-in (button or Ctrl/Cmd with + or =) in an
\* Open(Ready) state, the content point that was displayed at the viewport
\* center is displayed within 5px of the viewport center, on both axes.
C1_CenterZoomInKeepsCenter ==
    (last.op = "zoomIn" /\ last.pre.ready) =>
        /\ Held(st.clientWidth, last.pre.left2, last.pre.width,
                ContainerLeft2(st), last.pre.currentZoom, st.currentZoom)
        /\ Held(st.clientHeight, last.pre.top2, last.pre.height,
                ContainerTop2(st), last.pre.currentZoom, st.currentZoom)

\* whether the scroll offset a modifier-click asked for on one axis was inside
\* the valid range [0, newSize - client] of an axis that overflows
Unclamped(point2, preLeft2, preSize, oldZoom, newZoom, newSize, clientSize) ==
    LET anchor2 == Min(2 * preSize, Max(0, point2 - preLeft2))
        target == AnchoredScroll(anchor2, oldZoom, newZoom, clientSize)
    IN  /\ newSize > clientSize
        /\ 0 <= target[1]
        /\ target[1] <= target[2] * (newSize - clientSize)

\* C2: after a Ctrl/Cmd+Click or Alt+Click on the viewport in an Open(Ready)
\* state, the content point that was under the cursor is displayed within 5px
\* of the cursor, on every axis whose new scroll offset was not clamped.
C2_ModifierClickKeepsCursorPoint ==
    (last.op \in {"clickIn", "clickOut"} /\ last.pre.ready) =>
        /\ Unclamped(2 * last.x, last.pre.left2, last.pre.width, last.pre.currentZoom,
                     st.currentZoom, offsetWidth(st), st.clientWidth)
             => Held(2 * last.x, last.pre.left2, last.pre.width,
                     ContainerLeft2(st), last.pre.currentZoom, st.currentZoom)
        /\ Unclamped(2 * last.y, last.pre.top2, last.pre.height, last.pre.currentZoom,
                     st.currentZoom, offsetHeight(st), st.clientHeight)
             => Held(2 * last.y, last.pre.top2, last.pre.height,
                     ContainerTop2(st), last.pre.currentZoom, st.currentZoom)

\* C3: in every reachable state currentZoom is a multiple of 10 in [10, 1000].
C3_ZoomInRange ==
    /\ st.currentZoom % 10 = 0
    /\ 10 <= st.currentZoom
    /\ st.currentZoom <= 1000

\* a zoom-out was requested at the floor and the zoom stayed in range
C3_Witness ==
    /\ last.op = "zoomOut"
    /\ last.pre.currentZoom = 10
    /\ st.currentZoom = 10

\* C4: in an Open(Ready) state at zoom z, each zoom-in request sets the zoom
\* to min(1000, z + 10) and each zoom-out request to max(10, z - 10); every
\* request is handled on its own, so n of them add up step by step.
C4_ZoomSteps ==
    /\ (last.op = "zoomIn" /\ last.pre.ready)
            => st.currentZoom = Min(1000, last.pre.currentZoom + 10)
    /\ (last.op = "zoomOut" /\ last.pre.ready)
            => st.currentZoom = Max(10, last.pre.currentZoom - 10)

\* a zoom-in from 990% has reached the limit of 1000%
C4_Witness ==
    /\ last.op = "zoomIn"
    /\ last.pre.ready
    /\ last.pre.currentZoom = 990
    /\ st.currentZoom = 1000

\* C5: a zoom request at the limit it would exceed (zoom-in at 1000%,
\* zoom-out at 10%) changes nothing: zoom, fitRatio, natural size, container
\* size, scroll offsets and layout mode are as before.
C5_ZoomAtLimitIsNoOp ==
    /\ (last.op \in {"zoomIn", "clickIn"} /\ last.pre.currentZoom = 1000)
            => View(st) = last.pre
    /\ (last.op \in {"zoomOut", "clickOut"} /\ last.pre.currentZoom = 10)
            => View(st) = last.pre

\* a Ctrl/Cmd+Click at 1000% was handled
C5_Witness ==
    /\ last.op = "clickIn"
    /\ last.pre.ready
    /\ last.pre.currentZoom = 1000

\* the container fits the viewport, the layout is centered and the content
\* center is displayed within TOLERANCE of the viewport center
FitsCentered(s) ==
    /\ offsetWidth(s) <= s.clientWidth
    /\ offsetHeight(s) <= s.clientHeight
    /\ s.layoutMode = "centered"
    /\ Abs(ContainerLeft2(s) + offsetWidth(s) - s.clientWidth) <= 2 * TOLERANCE
    /\ Abs(ContainerTop2(s) + offsetHeight(s) - s.clientHeight) <= 2 * TOLERANCE

\* C6: a reset (Reset button or Ctrl/Cmd+0) in an Open(Ready) session, after
\* any zoom and pan operations, leaves zoom 100, scroll offsets (0, 0) and
\* the content fitting the viewport in centered layout, its center within
\* 5px of the viewport center.
C6_ResetRestoresView ==
    (last.op = "reset" /\ last.pre.ready) =>
        /\ st.currentZoom = 100
        /\ st.zoomLevelDisplay = 100
        /\ st.scrollLeft = 0
        /\ st.scrollTop = 0
        /\ FitsCentered(st)

\* a reset found the viewport scrolled on both axes, at a zoom above 100%
C6_Witness ==
    /\ last.op = "reset"
    /\ last.pre.ready
    /\ last.pre.layoutMode = "scrollable"
    /\ last.pre.currentZoom > 100
    /\ last.pre.scrollLeft > 0
    /\ last.pre.scrollTop > 0

\* C7: a reset in an Open(Ready) session yields the fitRatio and the container
\* size that the session's first initializeDisplay produced, for vector and
\* for image-backed content.
C7_ResetReproducesFirstDisplay ==
    (last.op = "reset" /\ last.pre.ready /\ first.set) =>
        /\ st.fitRatio = first.fitRatio
        /\ st.styleWidth = first.width
        /\ st.styleHeight = first.height

\* C8: from an Open(Ready) state with zoom <= 980, every completed cycle of
\* two zoom-ins and two zoom-outs (up to MaxCycles of them) leaves the zoom
\* and the container size of the origin and scroll offsets within 5px of the
\* origin's.
C8_RoundTripReturns ==
    (trip.phase = 0 /\ trip.cycles >= 1 /\ trip.origin.ready /\ trip.origin.currentZoom <= 980) =>
        /\ st.currentZoom = trip.origin.currentZoom
        /\ offsetWidth(st) = trip.origin.width
        /\ offsetHeight(st) = trip.origin.height
        /\ Abs(st.scrollLeft - trip.origin.scrollLeft) <= TOLERANCE
        /\ Abs(st.scrollTop - trip.origin.scrollTop) <= TOLERANCE

\* three cycles were completed from a scrolled origin
C8_Witness ==
    /\ trip.phase = 0
    /\ trip.cycles = 3
    /\ trip.origin.ready
    /\ trip.origin.currentZoom <= 980
    /\ trip.origin.scrollLeft > 0
    /\ trip.origin.scrollTop > 0

\* C9: after initializeDisplay has run, for any diagram and viewport, the zoom
\* is 100, the scroll offsets are (0, 0), the container fits the viewport on
\* both axes, the layout is centered and the content center is within 5px of
\* the viewport center.
C9_InitialDisplay ==
    RanInit(last.op, st) =>
        /\ st.currentZoom = 100
        /\ st.scrollLeft = 0
        /\ st.scrollTop = 0
        /\ FitsCentered(st)

\* a diagram larger than the viewport on both axes was opened and scaled down
C9_Witness ==
    /\ last.op = "open"
    /\ RanInit(last.op, st)
    /\ st.naturalWidth > st.clientWidth
    /\ st.naturalHeight > st.clientHeight
    /\ st.fitRatio # <<1, 1>>

ZoomOps == {"zoomIn", "zoomOut", "clickIn", "clickOut"}

\* fitRatio is min(1.0, 0.95 * viewport width / natural width,
\* 0.95 * viewport height / natural height) and lies in (0, 1]
C11_State ==
    Ready(st) =>
        LET n == st.fitRatio[1]
            d == st.fitRatio[2]
            byW == <<95 * st.clientWidth, 100 * st.naturalWidth>>
            byH == <<95 * st.clientHeight, 100 * st.naturalHeight>>
        IN  /\ st.naturalWidth > 0 /\ st.naturalHeight > 0
            /\ 0 < n /\ 0 < d /\ n <= d
            /\ n * byW[2] <= byW[1] * d
            /\ n * byH[2] <= byH[1] * d
            /\ \/ n = d
               \/ n * byW[2] = byW[1] * d
               \/ n * byH[2] = byH[1] * d

\* a zoom request or a mouse event of a drag leaves fitRatio as it was
C11_Step ==
    \/ st'.fitRatio = st.fitRatio
    \/ ~(last'.op \in ZoomOps \/ MouseDown \/ MouseMove \/ MouseUp)

\* C11: in every Open(Ready) state fitRatio equals min(1.0, viewportW * 0.95 /
\* naturalW, viewportH * 0.95 / naturalH) of the stored natural size, lies in
\* (0, 1], and no changeZoom / zoomIn / zoomOut request and no pan event
\* (mousedown, mousemove, mouseup) changes it.
C11_FitRatio == []C11_State /\ [][C11_Step]_vars

\* a drag is in progress on a diagram that was scaled down to fit and then
\* zoomed in
C11_Witness ==
    /\ Ready(st)
    /\ st.isPanning
    /\ st.currentZoom > 100
    /\ st.fitRatio[1] < st.fitRatio[2]
    /\ st.scrollLeft # st.panScrollLeft

\* C12: in every Open(Ready) state the container is
\* round(naturalWidth * fitRatio * currentZoom / 100) pixels wide and
\* round(naturalHeight * fitRatio * currentZoom / 100) pixels high, after any
\* sequence of zoom and reset requests.
C12_ContainerSize ==
    Ready(st) =>
        /\ st.styleSized
        /\ offsetWidth(st) = RoundDiv(st.naturalWidth * st.fitRatio[1] * st.currentZoom,
                                      st.fitRatio[2] * 100)
        /\ offsetHeight(st) = RoundDiv(st.naturalHeight * st.fitRatio[1] * st.currentZoom,
                                       st.fitRatio[2] * 100)

\* a zoom request was handled after a reset, on a diagram scaled down to fit
\* whose scaled height is not a whole number of pixels
C12_Witness ==
    /\ Ready(st)
    /\ resets > 0
    /\ last.op \in ZoomOps
    /\ st.currentZoom # 100
    /\ st.fitRatio[1] < st.fitRatio[2]
    /\ (st.naturalHeight * st.fitRatio[1] * st.currentZoom) % (st.fitRatio[2] * 100) # 0

\* C13: in every Open(Ready) state the viewport is in exactly one of the
\* layout modes centered / scrollable, and it is centered if and only if the
\* container is at most as wide and at most as high as the viewport's client
\* box, whatever zoom changes and resets came before.
C13_LayoutMode ==
    Ready(st) =>
        /\ st.layoutMode \in {"centered", "scrollable"}
        /\ st.layoutMode = "centered"
              <=> (offsetWidth(st) <= st.clientWidth /\ offsetHeight(st) <= st.clientHeight)

\* a zoom-out brought a container that overflowed the viewport back inside it
C13_Witness ==
    /\ Ready(st)
    /\ last.op \in {"zoomOut", "clickOut"}
    /\ last.pre.ready
    /\ last.pre.layoutMode = "scrollable"
    /\ st.layoutMode = "centered"

\* the values closeModal is to leave: modal closed, no current diagram, zoom
\* 100, fitRatio 1.0, natural size 0x0, scroll (0, 0), the container empty
\* and without an explicit size
ClosedState(s) ==
    /\ ~s.isModalOpen
    /\ s.currentDiagram = NoDiagram
    /\ s.currentZoom = 100
    /\ s.zoomLevelDisplay = 100
    /\ s.fitRatio = <<1, 1>>
    /\ s.naturalWidth = 0
    /\ s.naturalHeight = 0
    /\ s.scrollLeft = 0
    /\ s.scrollTop = 0
    /\ s.content = NoDiagram
    /\ ~s.styleSized
    /\ offsetWidth(s) = 0
    /\ offsetHeight(s) = 0

\* the zoom state, the container size and the scroll offsets of a state
ZoomView(s) ==
    [ currentZoom |-> s.currentZoom, fitRatio |-> s.fitRatio,
      naturalWidth |-> s.naturalWidth, naturalHeight |-> s.naturalHeight,
      width |-> offsetWidth(s), height |-> offsetHeight(s),
      scrollLeft |-> s.scrollLeft, scrollTop |-> s.scrollTop ]

\* opening diagram d from state s gives what opening it in a fresh webview
\* gives: once the display is initialised (at once, or when the pending image
\* has answered) the same zoom state, container size, scroll offsets and layout
\* mode, and while the image is pending the same zoom state, container size
\* and scroll offsets
OpensAsFresh(s, d) ==
    LET fresh == InitState(<<s.clientWidth, s.clientHeight>>)
    IN  /\ View(openModal(s, d, TRUE)) = View(openModal(fresh, d, TRUE))
        /\ d.kind = "img" =>
              /\ ZoomView(openModal(s, d, FALSE)) = ZoomView(openModal(fresh, d, FALSE))
              /\ View(onImageLoad(openModal(s, d, FALSE)))
                    = View(onImageLoad(openModal(fresh, d, FALSE)))
              /\ View(onImageError(openModal(s, d, FALSE)))
                    = View(onImageError(openModal(fresh, d, FALSE)))

\* a step that runs closeModal: one that closes the open modal (the close
\* button, the backdrop or Escape), or a close request while it is closed
CloseStep == ~st'.isModalOpen /\ (st.isModalOpen \/ CloseClick)

C14_Step ==
    \/ ~CloseStep
    \/ /\ ClosedState(st')
       /\ closeModal(st') = st'
       /\ \A d \in page : OpensAsFresh(st', d)

\* C14: closeModal, from any state, leaves the modal closed with no current
\* diagram, zoom 100, fitRatio 1.0, natural size 0x0, scroll (0, 0) and an
\* empty container without explicit size; a second closeModal changes
\* nothing; and opening a diagram afterwards gives the zoom state, container
\* size, scroll offsets and layout mode that opening it in a fresh webview
\* gives, whatever the previous session did.
C14_CloseResets == [][C14_Step]_vars

\* the modal was closed after a session that had zoomed the diagram beyond
\* the viewport (its layout class is still on the viewport)
C14_Witness ==
    /\ ClosedState(st)
    /\ tail >= 2
    /\ st.layoutMode = "scrollable"
    /\ closeModal(st) = st

\* the program state apart from the record of images loading detached
Attached(s) == [s EXCEPT !.staleImg = FALSE, !.staleHandlers = FALSE]

\* a step that delivers the load / error event of an image whose session was
\* closed while it was loading
StaleStep == st.staleImg /\ StaleImageEvent

C15_Step ==
    \/ ~StaleStep
    \/ Attached(st') = Attached(st)

\* C15: an image that was still loading when the modal was closed has no
\* load / error handler left, so its event, whenever it arrives, does not run
\* initializeDisplay and changes nothing: not in the closed modal and not in
\* a session opened afterwards.
C15_LateImageEvent == [](st.staleImg => ~st.staleHandlers) /\ [][C15_Step]_vars

\* the event of an image whose session was closed has arrived in a later
\* session that had initialised its display
C15_Witness ==
    /\ last.op = "stale"
    /\ last.pre.ready
    /\ last.pre.naturalWidth > 0
    /\ Ready(st)
    /\ ~st.staleImg

\* Open(Loading): the modal is open and waits for its image
Loading(s) == s.isModalOpen /\ s.imgState = "pending"

\* C16: an Open(Loading) modal does not stay in Loading: the load event and
\* the error event of the pending image each run initializeDisplay and leave
\* the modal Open(Ready) with its display initialised, and, the image being
\* sure to fire one of them, Loading leads to Ready or Closed.
C16_LoadingEnds ==
    /\ [](last.op \in {"load", "error"} =>
            /\ last.pre.ready = FALSE
            /\ Ready(st)
            /\ st.naturalWidth > 0 /\ st.naturalHeight > 0
            /\ st.styleSized
            /\ st.currentZoom = 100)
    /\ (Loading(st) ~> (Ready(st) \/ ~st.isModalOpen))

\* the image failed to load and the modal is Open(Ready) on the fallback size
C16_Witness ==
    /\ last.op = "error"
    /\ Ready(st)
    /\ st.imgState = "failed"
    /\ st.naturalWidth = SAFE_MINIMUM

\* ZoomState has the values the script starts with and closeModal restores
InitialZoomState(s) ==
    /\ s.currentZoom = 100
    /\ s.fitRatio = <<1, 1>>
    /\ s.naturalWidth = 0
    /\ s.naturalHeight = 0

C17_Step ==
    \/ ~(Loading(st) /\ Loading(st'))
    \/ ~InitialZoomState(st)
    \/ InitialZoomState(st') /\ st'.styleSized = st.styleSized

\* C17: while the modal is Open(Loading), no keyboard, button or mouse event
\* runs initializeDisplay: every step from a Loading state with the initial
\* ZoomState (zoom 100, fitRatio 1.0, natural size 0x0) to a Loading state
\* leaves the ZoomState initial and the container unsized.
C17_LoadingKeepsZoomState == [][C17_Step]_vars

C18_Step ==
    \/ st' = st
    \/ ~ClosedState(st)
    \/ ~(KeyDown \/ KeyUp \/ ViewportClick \/ MouseDown)

C19_Step ==
    \/ (st'.scrollLeft = st.scrollLeft /\ st'.scrollTop = st.scrollTop)
    \/ st.currentZoom > 100
    \/ ~MouseMove

\* C19: panning happens only above 100% zoom: in every reachable state a
\* drag in progress (isPanning) implies currentZoom > 100, and no mousemove
\* changes the scroll offsets while currentZoom <= 100, whatever keyboard
\* zoom-out, reset and close events come between the mouse events.
C19_PanOnlyAboveFull ==
    /\ [](st.isPanning => st.currentZoom > 100)
    /\ [][C19_Step]_vars

\* calculateViewportCenter of the end-to-end tests, one axis, in doubled
\* pixels: scroll offset + client size / 2
calculateViewportCenter2(scroll, clientSize) == 2 * scroll + clientSize

\* the state a request found is the one the session's first initializeDisplay
\* left: zoom 100, scroll (0, 0), the container and fitRatio it set
AfterInitialDisplay(pre) ==
    /\ pre.ready
    /\ first.set
    /\ pre.currentZoom = 100
    /\ pre.scrollLeft = 0
    /\ pre.scrollTop = 0
    /\ pre.width = first.width
    /\ pre.height = first.height
    /\ pre.fitRatio = first.fitRatio

\* C20: for every zoom-in (button or Ctrl/Cmd with + or =) issued right after
\* the initial display, also of a diagram that was scaled down to fit, the
\* viewport center as the end-to-end tests measure it moves by at most 5px on
\* both axes, and the zoom readout goes from 100% to 110%.
C20_ZoomInKeepsMeasuredCenter ==
    (last.op = "zoomIn" /\ AfterInitialDisplay(last.pre)) =>
        /\ Abs(calculateViewportCenter2(st.scrollLeft, st.clientWidth)
               - calculateViewportCenter2(last.pre.scrollLeft, st.clientWidth)) <= 2 * TOLERANCE
        /\ Abs(calculateViewportCenter2(st.scrollTop, st.clientHeight)
               - calculateViewportCenter2(last.pre.scrollTop, st.clientHeight)) <= 2 * TOLERANCE
        /\ st.zoomLevelDisplay = 110

----------------------------------------------------------------------------
(* C21 *)

\* the requests that act on a session's display once it is initialised
SessionOps == ZoomOps \cup {"reset"}

\* C21: the natural size is captured once per modal session: a zoom-in, a
\* zoom-out, a modifier-click zoom or a reset that finds the modal in
\* Open(Ready) leaves naturalWidth and naturalHeight as it found them.
C21_NaturalSizeCapturedOnce ==
    (last.op \in SessionOps /\ last.pre.ready /\ Ready(st)) =>
        /\ st.naturalWidth = last.pre.naturalWidth
        /\ st.naturalHeight = last.pre.naturalHeight

----------------------------------------------------------------------------
(* C22 *)

\* the scrollable range of one axis
MaxScroll(containerSize, clientSize) == Max(0, containerSize - clientSize)

\* C22: in every Open(Ready) state the scroll offset of each axis lies in
\* [0, max(0, container size - viewport client size)] of that axis, and
\* right after a zoom change it is 0 on every axis on which the container
\* does not exceed the viewport, whatever the other axis does.
C22_ScrollRange ==
    /\ Ready(st) =>
          /\ 0 <= st.scrollLeft
          /\ st.scrollLeft <= MaxScroll(offsetWidth(st), st.clientWidth)
          /\ 0 <= st.scrollTop
          /\ st.scrollTop <= MaxScroll(offsetHeight(st), st.clientHeight)
    /\ (last.op \in ZoomOps /\ last.pre.ready /\ st.currentZoom # last.pre.currentZoom) =>
          /\ offsetWidth(st) <= st.clientWidth => st.scrollLeft = 0
          /\ offsetHeight(st) <= st.clientHeight => st.scrollTop = 0

\* a zoom change left one axis overflowing and scrolled, the other at 0
C22_Witness ==
    /\ Ready(st)
    /\ last.op \in ZoomOps /\ last.pre.ready
    /\ st.currentZoom # last.pre.currentZoom
    /\ offsetWidth(st) > st.clientWidth /\ st.scrollLeft > 0
    /\ offsetHeight(st) <= st.clientHeight /\ st.scrollTop = 0

----------------------------------------------------------------------------
(* C23 *)

\* C23: in every reachable state the viewport's cursor-mode class is the
\* one the current state determines: none while the modal is closed,
\* otherwise zoom-in-mode if Ctrl/Cmd is held, else zoom-out-mode if Alt is
\* held, else pan-dragging if a drag is in progress, else pan-ready if the
\* zoom is above 100, else none.
C23_CursorIsFunctionOfState == st.cursor = updateViewportCursor(st)

\* the same for the sessions that start from the initial zoom state, i.e.
\* without the zoom buttons having been used while the modal was closed
C23_FromInitialZoomState ==
    (st.currentZoom = 100 /\ st.naturalWidth = 0) => st.cursor = updateViewportCursor(st)

----------------------------------------------------------------------------
(* C24 *)

\* the requests that run initializeDisplay whatever state they find
InitOps == {"load", "error", "reset"}

\* C24: initializeDisplay always leaves a natural size above 0: when the
\* container and its content measure 0 the natural size is the safe minimum
\* of 100 x 100.  So in every Open(Ready) state naturalWidth > 0 and
\* naturalHeight > 0, and the scale a later zoom divides by,
\* fitRatio * currentZoom / 100, is above 0.
C24_SafeMinimum ==
    /\ Ready(st) =>
          /\ st.naturalWidth > 0 /\ st.naturalHeight > 0
          /\ st.fitRatio[1] > 0 /\ st.fitRatio[2] > 0
          /\ st.currentZoom > 0
    /\ last.op \in InitOps =>
          /\ st.naturalWidth > 0 /\ st.naturalHeight > 0
          /\ (last.pre.width = 0 /\ last.pre.height = 0 /\ ContentWidth(st) = 0) =>
                /\ st.naturalWidth = SAFE_MINIMUM
                /\ st.naturalHeight = SAFE_MINIMUM

\* the image of the session failed to load and the safe minimum was used
C24_Witness ==
    /\ last.op = "error"
    /\ last.pre.width = 0 /\ last.pre.height = 0
    /\ Ready(st)
    /\ st.naturalWidth = SAFE_MINIMUM /\ st.naturalHeight = SAFE_MINIMUM

----------------------------------------------------------------------------
(* C25 *)

\* C25: at most one Java process started by the extension is alive at any
\* time, across activation, configuration-change restarts and deactivation.
C25_AtMostOneServerProcess == Cardinality(AliveProcesses(host)) <= 1

----------------------------------------------------------------------------
(* C26 *)

\* what panning must leave alone: zoom, fit ratio, natural size, the
\* container's size and the layout mode
PanFrame(s) ==
    <<s.currentZoom, s.fitRatio, s.naturalWidth, s.naturalHeight, s.zoomLevelDisplay,
      s.styleSized, s.styleWidth, s.styleHeight, s.layoutMode>>

\* the state a mousemove at e leaves when it finds a drag in progress: the
\* scroll offsets are the drag-start offsets less twice the pointer's
\* displacement, held inside the viewport's scrollable range
Dragged(s, e) ==
    [s EXCEPT
        !.scrollLeft = Max(0, Min(s.panScrollLeft - 2 * (e.x - s.startX),
                                  MaxScroll(offsetWidth(s), s.clientWidth))),
        !.scrollTop = Max(0, Min(s.panScrollTop - 2 * (e.y - s.startY),
                                 MaxScroll(offsetHeight(s), s.clientHeight)))]

C26_Step ==
    \/ PanFrame(st') = PanFrame(st) /\ ~st.isPanning
    \/ ~(MouseDown \/ MouseMove \/ MouseUp)
    \/ /\ PanFrame(st') = PanFrame(st)
       /\ (~MouseMove \/ \E e \in MoveEvents : st' = Dragged(st, e))

\* C26: while a drag is in progress a mousemove sets the scroll offsets to
\* dragStartScroll - 2 * (pointer - dragStartPointer) on each axis, subject
\* to the viewport's scroll range, and changes nothing else; mousedown,
\* mousemove and mouseup never change the zoom, the fit ratio, the natural
\* size, the container's size or the layout mode.
C26_DragScrollsOnly == [][C26_Step]_vars

\* a drag in progress has moved the view away from its drag-start offsets
C26_Witness ==
    /\ st.isPanning /\ Ready(st) /\ last.op = "other"
    /\ st.scrollLeft # st.panScrollLeft
    /\ \E e \in MoveEvents : e.x # st.startX /\ st = Dragged(st, e)

----------------------------------------------------------------------------
(* C27 *)

\* C27: in every reachable state with the modal open, a left click on the
\* viewport zooms in by one step exactly when Ctrl/Cmd is held without Alt,
\* zooms out by one step exactly when Alt is held without Ctrl/Cmd, and
\* changes nothing when both or neither are held; and in every reachable
\* state a mousedown with Ctrl/Cmd or Alt held changes nothing, so it never
\* starts a pan.
C27_ClickModifierRules ==
    \A e \in MouseEvents :
        LET clicked == onViewportClick(st, e)
            pressed == onMouseDown(st, e)
        IN  /\ (Ready(st) /\ e.button = 0) =>
                /\ (e.ctrlOrMeta /\ ~e.altKey) =>
                        clicked.currentZoom = Min(MAX_ZOOM, st.currentZoom + ZOOM_STEP)
                /\ (e.altKey /\ ~e.ctrlOrMeta) =>
                        clicked.currentZoom = Max(MIN_ZOOM, st.currentZoom - ZOOM_STEP)
                /\ (e.ctrlOrMeta <=> e.altKey) => clicked = st
            /\ (st.isModalOpen /\ e.button = 0) =>
                /\ clicked.currentZoom > st.currentZoom => (e.ctrlOrMeta /\ ~e.altKey)
                /\ clicked.currentZoom < st.currentZoom => (e.altKey /\ ~e.ctrlOrMeta)
                /\ (e.ctrlOrMeta <=> e.altKey) => clicked = st
            /\ (e.ctrlOrMeta \/ e.altKey) => pressed = st

\* an Alt+click has zoomed out by one step from a zoom above 100, where a
\* plain mousedown would have started a pan
C27_Witness ==
    /\ last.op = "clickOut" /\ last.pre.ready
    /\ last.pre.currentZoom > 100
    /\ st.currentZoom = last.pre.currentZoom - ZOOM_STEP
    /\ ~st.isPanning

----------------------------------------------------------------------------
(* C28 *)

\* the states the zoom requests lead to from s: the zoom buttons, the
\* keyboard shortcuts and the modifier clicks
AfterZoomRequest(s) ==
    {onZoomInClick(s), onZoomOutClick(s)}
    \cup { onKeyDown(s, e) : e \in {k \in KeyDownEvents : k.ctrlOrMeta /\ k.key \in {"+", "=", "-"}} }
    \cup { onViewportClick(s, e) :
             e \in {m \in MouseEvents : m.button = 0 /\ (m.ctrlOrMeta # m.altKey)} }

\* C28: a zoom-in, zoom-out or modifier-click zoom request issued while no
\* natural size is stored is ignored: the zoom, the zoom readout, the
\* container's size and the scroll offsets stay as they are.  No natural
\* size is stored only while the modal is Closed or Open(Loading).
C28_ZoomIgnoredWithoutNaturalSize ==
    (st.naturalWidth = 0 \/ st.naturalHeight = 0) =>
        /\ ~st.isModalOpen \/ Loading(st)
        /\ \A n \in AfterZoomRequest(st) :
              /\ ZoomView(n) = ZoomView(st)
              /\ n.zoomLevelDisplay = st.zoomLevelDisplay
              /\ n.styleSized = st.styleSized
              /\ n.layoutMode = st.layoutMode

\* a zoom request was issued while the image was loading, and was ignored
C28_Witness ==
    /\ last.op \in ZoomOps
    /\ Loading(st) /\ ~last.pre.ready
    /\ st.naturalWidth = 0 /\ st.naturalHeight = 0
    /\ st.currentZoom = last.pre.currentZoom
    /\ ~st.styleSized

----------------------------------------------------------------------------
(* C29 *)

\* a step that closes the open modal
ClosesModal == st.isModalOpen /\ ~st'.isModalOpen

C29_Step == ~ClosesModal \/ ~st'.isPanning

\* C29: closing the modal ends any drag in progress: every step that closes
\* the open modal leaves panController.isPanning false.
C29_CloseEndsDrag == [][C29_Step]_vars

----------------------------------------------------------------------------
(* C30 *)

\* C30: once a PreviewPanel has been disposed its webview content is never
\* written again: no debounce timer of a disposed panel is pending, and no
\* assignment of panel.webview.html has run on a disposed panel, not even by
\* an updateContent that was awaiting its Markdown processing at dispose time.
C30_NoWriteAfterDispose ==
    \A i \in 1..Len(host.panels) :
        /\ host.panels[i].isDisposed => ~host.panels[i].updateTimeout
        /\ ~host.panels[i].assignedAfterDispose

\* the part of C30 that does not involve an updateContent in flight: a
\* disposed panel has no debounce timer pending, so no update starts on it
C30_NoUpdateStartsAfterDispose ==
    \A i \in 1..Len(host.panels) :
        host.panels[i].isDisposed => ~host.panels[i].updateTimeout

====
